---- MODULE Spec2Model ----
(***************************************************************************)
(* Scanner lifecycle of the barcode-scanner page.                          *)
(*                                                                         *)
(* The repository holds several versions of the same React page:           *)
(*   "five"    home.tsx 1-490       scannerState with five values          *)
(*   "product" home.tsx 723-1268    four values, product lookup, 8 s timer *)
(*   "bool"    products.$barcode.tsx 268-592   isScanning boolean          *)
(* One behaviour of the model is one mounted page of one version.          *)
(*                                                                         *)
(* React: a handler is a closure of the render that created it. It reads   *)
(* the state values of that render (record c below) and its set-state      *)
(* calls are applied together when the handler returns; a changed state    *)
(* gives a new render, whose closures are new function objects.            *)
(*                                                                         *)
(* Quagga is the module-level decoder handle. The library is not part of   *)
(* the repository; it is modelled by the calls the pages make on it:       *)
(* init(config, cb) is asynchronous and later calls cb(err); start()       *)
(* begins frame processing; stop() ends it and releases the camera;        *)
(* onDetected/onProcessed append a listener; offDetected(f) removes the    *)
(* listeners equal to f and offDetected()/offProcessed() remove all; an    *)
(* emitted frame calls every listener registered when it is emitted.       *)
(* The 'processed' and the 'detected' publication of a frame are two       *)
(* events: the first runs the processed listeners, the second the          *)
(* detection listeners.                                                    *)
(*                                                                         *)
(* The product page posts stock updates to the server route                *)
(* (products.$barcode.tsx 107-266) from the buttons of ScanResultUI, a     *)
(* child component with its own state that is mounted while scannedCode    *)
(* is not empty. Spec is the page with all its events; the claims are      *)
(* checked under specifications that leave some events or inputs out, so   *)
(* that each of their behaviours is a behaviour of Spec.                   *)
(***************************************************************************)
EXTENDS Integers, Sequences, FiniteSets, TLC

\* ------------------------------------------------------------------ bounds
MaxInits == 2
MaxListeners == 2
MaxTimers == 1
MaxFetches == 1
MaxLive == 1
MaxPosts == 2
MaxScanCount == 2
MaxStockPosts == 1

\* ------------------------------------------------------- program constants
ConfidenceThreshold == 70
StartNewScanDelay == 100
CameraChangeDelay5 == 500
CameraChangeDelayP == 100
CameraChangeDelayB == 500
SuccessDelayP == 8000
StockMessageDelay == 3000
StockErrorDelay == 5000

Variants == {"five", "product", "bool"}

\* decoded symbols a frame can carry; the first is a key of the product
\* store. The reader configured is code_39_reader: the key constructor, in
\* lower case, is no Code 39 text
Codes == {"123456789", "NOPE"}
ProductKeys == {"123456789", "987654321", "CODE39TEST"}
\* result.codeResult.confidence; Undefined stands for a result without one
Undefined == 0 - 1
Confidences == {Undefined, 69, 70}

\* device labels, as sequences of characters
LFront == <<"F", "r", "o", "n", "t">>
LBack == <<"B", "a", "c", "k", " ", "C", "a", "m">>
LRear == <<"R", "e", "a", "r">>

\* the device lists enumerateDevices can answer with (videoinput entries)
DeviceLists ==
  { <<>>,
    << [deviceId |-> "a", label |-> <<>>] >>,
    << [deviceId |-> "a", label |-> LFront] >>,
    << [deviceId |-> "a", label |-> LFront], [deviceId |-> "b", label |-> LBack] >>,
    << [deviceId |-> "a", label |-> LFront], [deviceId |-> "b", label |-> LRear] >> }

VARIABLES
  variant,          \* which version of the page is mounted
  hasInitialized,   \* whether the decoder library maintains Quagga.initialized
  quaggaLoaded,     \* Quagga !== null
  isLoading, scannerState, isScanning, scannedCode, error, cameras,
  selectedCamera, productInfo, isLoadingProduct,              \* React state
  scanCount,        \* React state of the "five" page: frames processed
  productStock,     \* productInfo.stock, undefined while productInfo is null
  stockUpdateLoading, stockMessage,   \* React state of the mounted ScanResultUI
  stockReqs,        \* stock updates the page has posted and not yet heard of
  renderId,         \* identity of the committed render (of its closures)
  inits,            \* Quagga: init requests whose callback has not run yet
  live,             \* Quagga: number of camera streams acquired, not released
  running,          \* Quagga: frames are being processed
  initialized,      \* Quagga.initialized, when the library maintains it
  detected,         \* Quagga: detection listeners, in registration order
  processed,        \* Quagga: number of processed listeners
  timers,           \* pending setTimeout callbacks, in creation order
  fetches,          \* product lookups awaiting their response
  calls,            \* decoder and media calls made by the last handler, in order
  op                \* the last handler that ran: its name, whether the user
                    \* invoked it, whether it ran a listener of a stopped
                    \* session (staleHit) or the callback of an init request
                    \* that was pending when stopScanning ran (cancelled), the
                    \* camera a camera change asked for (want), the code and
                    \* confidence of the frame a detection published, and the
                    \* error an init callback was called with or the failure
                    \* of a product lookup (err), and the
                    \* scannerState it started from (from)

VARIABLES
  products,         \* server: the product store, by barcode
  objectFn,         \* server: the properties of the function that
                    \* products['constructor'] inherits from Object.prototype
  pending,          \* server: POST requests suspended at request.json()
  posts,            \* server: number of POST requests received
  response,         \* server: the last answer of the loader or the action
  req               \* server: the request step that ran last

serverVars == << products, objectFn, pending, posts, response, req >>

pageVars == << variant, hasInitialized, quaggaLoaded, isLoading, scannerState,
           isScanning, scannedCode, error, cameras, selectedCamera,
           productInfo, isLoadingProduct, scanCount, productStock,
           stockUpdateLoading, stockMessage, stockReqs, renderId, inits, live,
           running, initialized, detected, processed, timers, fetches, calls,
           op >>

vars == << pageVars, serverVars >>

\* ---------------------------------------------------------------- helpers
Range(s) == { s[i] : i \in 1..Len(s) }

RemoveAt(s, i) == SubSeq(s, 1, i - 1) \o SubSeq(s, i + 1, Len(s))

RECURSIVE SelectSeqBy(_, _)
\* s.filter(x => x.id # id)
SelectSeqBy(s, id) ==
  IF s = <<>> THEN <<>>
  ELSE IF Head(s).id = id THEN SelectSeqBy(Tail(s), id)
       ELSE <<Head(s)>> \o SelectSeqBy(Tail(s), id)

\* String.prototype.toLowerCase on the characters the labels use
LowerChar(ch) ==
  CASE ch = "B" -> "b" [] ch = "C" -> "c" [] ch = "F" -> "f"
    [] ch = "R" -> "r" [] ch = "E" -> "e" [] OTHER -> ch

toLowerCase(s) == [i \in 1..Len(s) |-> LowerChar(s[i])]

\* String.prototype.includes
includes(s, n) ==
  \E i \in 1..(Len(s) - Len(n) + 1) : SubSeq(s, i, i + Len(n) - 1) = n

NBack == <<"b", "a", "c", "k">>
NRear == <<"r", "e", "a", "r">>
NEnvironment == <<"e", "n", "v", "i", "r", "o", "n", "m", "e", "n", "t">>

\* JavaScript values: undefined, null, a number, NaN or a string of characters
JSUndefined == [t |-> "undefined", n |-> 0, s |-> <<>>]
JSNull == [t |-> "null", n |-> 0, s |-> <<>>]
JSNaN == [t |-> "nan", n |-> 0, s |-> <<>>]
Num(n) == [t |-> "number", n |-> n, s |-> <<>>]
Str(s) == [t |-> "string", n |-> 0, s |-> s]

\* the barcodes of the store, and request barcodes outside it
K1 == <<"1", "2", "3", "4", "5", "6", "7", "8", "9">>
K2 == <<"9", "8", "7", "6", "5", "4", "3", "2", "1">>
K3 == <<"C", "O", "D", "E", "3", "9", "T", "E", "S", "T">>
KUnknown == <<"u", "n", "k", "n", "o", "w", "n">>
KBlank == <<" ">>
KConstructor == <<"c", "o", "n", "s", "t", "r", "u", "c", "t", "o", "r">>

\* the characters of a decoded code, as the server reads them in the URL,
\* for the codes listed: the keys of the store, the inherited key the store
\* answers without owning it, and NOPE, which stands for a barcode of
\* letters and digits that the store does not answer at all
BarcodeChars(code) ==
  CASE code = "123456789" -> K1
    [] code = "987654321" -> K2
    [] code = "CODE39TEST" -> K3
    [] code = "constructor" -> KConstructor
    [] code = "NOPE" -> KUnknown

\* the id of a product record, as the page holds it
CodeOf(v) ==
  CASE v = Str(K1) -> "123456789"
    [] v = Str(K2) -> "987654321"
    [] v = Str(K3) -> "CODE39TEST"
    [] OTHER -> "unknown"

\* ------------------------------------------------- closures and environment
\* the values a handler of the committed render closes over
\* (id: the identity of its functions)
Cur == [id |-> renderId, st |-> scannerState, cam |-> selectedCamera]

\* the state a running handler writes: queued React updates, the decoder,
\* pending timers and lookups, and the log of decoder calls
Env == [scannerState |-> scannerState, isScanning |-> isScanning,
        scannedCode |-> scannedCode, error |-> error,
        selectedCamera |-> selectedCamera, productInfo |-> productInfo,
        isLoadingProduct |-> isLoadingProduct, scanCount |-> scanCount,
        productStock |-> productStock,
        stockUpdateLoading |-> stockUpdateLoading,
        stockMessage |-> stockMessage, stockReqs |-> stockReqs,
        inits |-> inits, live |-> live, running |-> running,
        initialized |-> initialized, detected |-> detected,
        processed |-> processed, timers |-> timers, fetches |-> fetches,
        calls |-> <<>>, staleHit |-> FALSE]

\* ------------------------------------------------------------ decoder calls
QuaggaInit(E, dev) ==
  [E EXCEPT !.inits = Append(@, [dev |-> dev, cancelled |-> FALSE]),
            !.calls = Append(@, "init")]

QuaggaStart(E) == [E EXCEPT !.running = TRUE, !.calls = Append(@, "start")]

QuaggaStop(E) ==
  [E EXCEPT !.running = FALSE, !.live = 0, !.initialized = FALSE,
            !.calls = Append(@, "stop")]

QuaggaOnDetected(E, c) ==
  [E EXCEPT !.detected = Append(@, [id |-> c.id, st |-> c.st, stopped |-> FALSE]),
            !.calls = Append(@, "onDetected")]

QuaggaOnProcessed(E) ==
  [E EXCEPT !.processed = @ + 1, !.calls = Append(@, "onProcessed")]

\* offDetected() without an argument
QuaggaOffDetectedAll(E) ==
  [E EXCEPT !.detected = <<>>, !.calls = Append(@, "offDetected")]

\* offDetected(handleDetection) of the render c
QuaggaOffDetected(E, c) ==
  [E EXCEPT !.detected = SelectSeqBy(@, c.id), !.calls = Append(@, "offDetected")]

QuaggaOffProcessed(E) ==
  [E EXCEPT !.processed = 0, !.calls = Append(@, "offProcessed")]

\* Quagga?.initialized
QuaggaInitialized(E) == quaggaLoaded /\ hasInitialized /\ E.initialized

\* bookkeeping of a stopScanning() call: the listeners still registered and
\* the init requests still pending belong to a session that was told to stop
MarkStopped(E) ==
  [E EXCEPT !.detected = [i \in 1..Len(@) |-> [@[i] EXCEPT !.stopped = TRUE]],
            !.inits = [i \in 1..Len(@) |-> [@[i] EXCEPT !.cancelled = TRUE]]]

\* setTimeout(startScanning, delay) of the render c; want is the camera the
\* caller was asked to switch to, "" when it was not a camera change
SetTimeoutStart(E, delay, c, want) ==
  [E EXCEPT !.timers = Append(@, [kind |-> "start", delay |-> delay, id |-> c.id,
                                  st |-> c.st, cam |-> c.cam, want |-> want])]

\* setTimeout of the success callback, which reads scannerState of c alone
SetTimeoutSuccess(E, delay, c) ==
  [E EXCEPT !.timers = Append(@, [kind |-> "success", delay |-> delay, id |-> 0,
                                  st |-> c.st, cam |-> "", want |-> ""])]

\* ----------------------------------------------------- handlers, "five" page
startScanning5(E, c) ==
  IF ~quaggaLoaded \/ isLoading \/ c.cam = "" THEN E
  ELSE LET E1 == [E EXCEPT !.scannerState = "starting", !.error = "",
                           !.scannedCode = "", !.scanCount = 0]
           E2 == QuaggaInit(E1, c.cam)
           E3 == QuaggaOnDetected(E2, c)
       IN QuaggaOnProcessed(E3)

\* fault variant: a stopScanning that returns to idle from every state
stopScanning5_AlwaysIdle(E, c) ==
  IF ~quaggaLoaded THEN E
  ELSE LET E0 == [E EXCEPT !.calls = Append(@, "stopScanning")]
           E1 == QuaggaOffProcessed(QuaggaOffDetectedAll(QuaggaStop(E0)))
       IN MarkStopped([E1 EXCEPT !.scannerState = "idle", !.scanCount = 0])

\* fault variant: a stopScanning that releases the decoder but leaves the
\* state alone
stopScanning5_KeepState(E, c) ==
  IF ~quaggaLoaded THEN E
  ELSE LET E0 == [E EXCEPT !.calls = Append(@, "stopScanning")]
       IN MarkStopped(QuaggaOffProcessed(QuaggaOffDetectedAll(QuaggaStop(E0))))

stopScanning5(E, c) ==
  IF ~quaggaLoaded THEN E
  ELSE LET E0 == [E EXCEPT !.calls = Append(@, "stopScanning")]
           E1 == QuaggaStop(E0)
           E2 == QuaggaOffDetectedAll(E1)
           E3 == QuaggaOffProcessed(E2)
           E4 == IF c.st \in {"scanning", "starting"}
                 THEN [E3 EXCEPT !.scannerState = "idle"] ELSE E3
       IN MarkStopped([E4 EXCEPT !.scanCount = 0])

\* fault variant: a listener that stops the scan when it rejects a result
onDetected5_StopOnReject(E, c, code, confidence) ==
  LET conf == IF confidence = Undefined THEN 0 ELSE confidence IN
  IF conf < ConfidenceThreshold THEN stopScanning5(E, c)
  ELSE LET E1 == [E EXCEPT !.scannedCode = code, !.scannerState = "success",
                           !.staleHit = @ \/ c.stopped]
       IN stopScanning5(E1, c)

\* fault variant: a filter that also drops a result at the threshold
onDetected5_Strict(E, c, code, confidence) ==
  LET conf == IF confidence = Undefined THEN 0 ELSE confidence IN
  IF conf <= ConfidenceThreshold THEN E
  ELSE LET E1 == [E EXCEPT !.scannedCode = code, !.scannerState = "success",
                           !.staleHit = @ \/ c.stopped]
       IN stopScanning5(E1, c)

\* the listener startScanning registers with onDetected
onDetected5(E, c, code, confidence) ==
  LET conf == IF confidence = Undefined THEN 0 ELSE confidence IN
  IF conf < ConfidenceThreshold THEN E
  ELSE LET E1 == [E EXCEPT !.scannedCode = code, !.scannerState = "success",
                           !.staleHit = @ \/ c.stopped]
       IN stopScanning5(E1, c)

\* fault variant: the error branch of the callback without its return
initCallback5_NoReturn(E, err) ==
  LET E1 == IF err # "" THEN [E EXCEPT !.error = "E_START", !.scannerState = "error"]
            ELSE E
  IN [QuaggaStart(E1) EXCEPT !.scannerState = "scanning"]

\* the callback startScanning passes to Quagga.init
initCallback5(E, err) ==
  IF err # "" THEN [E EXCEPT !.error = "E_START", !.scannerState = "error"]
  ELSE [QuaggaStart(E) EXCEPT !.scannerState = "scanning"]

\* fault variant: the result is cleared while the state is left alone
startNewScan_KeepState(E, c) ==
  LET E1 == [E EXCEPT !.scannedCode = ""]
  IN SetTimeoutStart(E1, StartNewScanDelay, c, "")

startNewScan(E, c) ==
  LET E1 == [E EXCEPT !.scannedCode = "", !.scannerState = "idle"]
  IN SetTimeoutStart(E1, StartNewScanDelay, c, "")

\* fault variant: the restart is armed without stopping the session
handleCameraChange5_NoStop(E, c, newCameraId) ==
  LET E1 == [E EXCEPT !.selectedCamera = newCameraId] IN
  IF c.st = "scanning"
  THEN SetTimeoutStart(E1, CameraChangeDelay5, c, newCameraId)
  ELSE E1

handleCameraChange5(E, c, newCameraId) ==
  LET E1 == [E EXCEPT !.selectedCamera = newCameraId] IN
  IF c.st = "scanning"
  THEN SetTimeoutStart(stopScanning5(E1, c), CameraChangeDelay5, c, newCameraId)
  ELSE E1

\* -------------------------------------------------- handlers, "product" page
\* fault variant: the selected camera is not tested
startScanningP_NoCameraTest(E, c) ==
  IF ~quaggaLoaded \/ isLoading THEN E
  ELSE LET E1 == [E EXCEPT !.error = "", !.scannedCode = "",
                           !.productInfo = "null", !.productStock = JSUndefined,
                           !.scannerState = "scanning"]
           E2 == QuaggaInit(E1, c.cam)
       IN QuaggaOnDetected(E2, c)

startScanningP(E, c) ==
  IF ~quaggaLoaded \/ isLoading \/ c.cam = "" THEN E
  ELSE LET E1 == [E EXCEPT !.error = "", !.scannedCode = "",
                           !.productInfo = "null", !.productStock = JSUndefined,
                           !.scannerState = "scanning"]
           E2 == QuaggaInit(E1, c.cam)
       IN QuaggaOnDetected(E2, c)

initCallbackP(E, err) ==
  IF err # "" THEN [E EXCEPT !.error = "E_CAMERA", !.scannerState = "error"]
  ELSE QuaggaStart(E)

\* fault variant: a stopScanning that returns to idle from every state
stopScanningP_AlwaysIdle(E, c) ==
  LET E0 == [E EXCEPT !.calls = Append(@, "stopScanning")]
      E1 == IF QuaggaInitialized(E0)
            THEN QuaggaStop(QuaggaOffDetected(E0, c)) ELSE E0
  IN MarkStopped([E1 EXCEPT !.scannerState = "idle"])

stopScanningP(E, c) ==
  LET E0 == [E EXCEPT !.calls = Append(@, "stopScanning")]
      E1 == IF QuaggaInitialized(E0)
            THEN QuaggaStop(QuaggaOffDetected(E0, c)) ELSE E0
      E2 == IF c.st = "scanning" THEN [E1 EXCEPT !.scannerState = "idle"] ELSE E1
  IN MarkStopped(E2)

\* fetchProductInfo up to its await fetch(...); st is the scannerState the
\* caller, handleDetection of the render c, reads after its own await, and
\* answer is the response of the server once its loader has run
fetchProductInfo(E, c, barcode) ==
  [E EXCEPT !.isLoadingProduct = TRUE, !.productInfo = "null",
            !.productStock = JSUndefined,
            !.fetches = Append(@, [code |-> barcode, st |-> c.st,
                                   answer |-> [kind |-> "none"]])]

\* fetchProductInfo after its awaits, on the answer the loader gave when it
\* ran: outcome "ok" is result.success, "notfound" an answer without
\* success, "throw" a failed fetch or an answer that is not JSON
fetchProductInfoDone(E, answer, outcome) ==
  LET E1 == CASE outcome = "ok" ->
                   [E EXCEPT !.productInfo = CodeOf(answer.data.id),
                             !.error = "",
                             !.productStock = answer.data.stock]
              [] outcome = "notfound" ->
                   [E EXCEPT !.error = "E_LOOKUP", !.scannerState = "error"]
              [] OTHER -> [E EXCEPT !.error = "E_NETWORK", !.scannerState = "error"]
  IN [E1 EXCEPT !.isLoadingProduct = FALSE]

\* handleDetection up to its await fetchProductInfo(code)
handleDetectionP(E, c, code) ==
  IF code = "" THEN E
  ELSE LET E1 == [E EXCEPT !.scannedCode = code, !.scannerState = "success",
                           !.staleHit = @ \/ c.stopped]
       IN fetchProductInfo(stopScanningP(E1, c), c, code)

\* the callback of the success timer
successTimeout(E, c) ==
  IF c.st = "success" THEN [E EXCEPT !.scannerState = "idle"] ELSE E

handleCameraChangeP(E, c, deviceId) ==
  LET E1 == stopScanningP(E, c)
      E2 == [E1 EXCEPT !.selectedCamera = deviceId]
  IN SetTimeoutStart(E2, CameraChangeDelayP, c, deviceId)

\* fault variant: a reset that clears the result but not the state
handleReset_KeepState(E) ==
  [E EXCEPT !.scannedCode = "", !.productInfo = "null",
            !.productStock = JSUndefined, !.error = ""]

handleReset(E) ==
  [E EXCEPT !.scannedCode = "", !.productInfo = "null",
            !.productStock = JSUndefined, !.error = "", !.scannerState = "idle"]

onClear(E) ==
  [E EXCEPT !.scannedCode = "", !.productInfo = "null",
            !.productStock = JSUndefined]

\* ----------------------------------------------------- handlers, "bool" page
startScanningB(E, c) ==
  IF ~quaggaLoaded \/ isLoading \/ c.cam = "" THEN E
  ELSE QuaggaOnDetected(QuaggaInit([E EXCEPT !.error = ""], c.cam), c)

initCallbackB(E, err) ==
  IF err # "" THEN [E EXCEPT !.error = "E_CAMERA"]
  ELSE [QuaggaStart(E) EXCEPT !.isScanning = TRUE]

stopScanningB(E, c) ==
  IF ~quaggaLoaded THEN E
  ELSE LET E0 == [E EXCEPT !.calls = Append(@, "stopScanning")]
           E1 == QuaggaOffProcessed(QuaggaOffDetectedAll(QuaggaStop(E0)))
       IN MarkStopped([E1 EXCEPT !.isScanning = FALSE])

onDetectedB(E, c, code) ==
  stopScanningB([E EXCEPT !.scannedCode = code, !.staleHit = @ \/ c.stopped], c)

handleCameraChangeB(E, c, newCameraId) ==
  LET E1 == [E EXCEPT !.selectedCamera = newCameraId] IN
  IF isScanning
  THEN SetTimeoutStart(stopScanningB(E1, c), CameraChangeDelayB, c, newCameraId)
  ELSE E1

\* ------------------------------------------------------------ shared pieces
startScanning(E, c) ==
  CASE variant = "five" -> startScanning5(E, c)
    [] variant = "product" -> startScanningP(E, c)
    [] OTHER -> startScanningB(E, c)

initCallback(E, err) ==
  CASE variant = "five" -> initCallback5(E, err)
    [] variant = "product" -> initCallbackP(E, err)
    [] OTHER -> initCallbackB(E, err)

RECURSIVE Emit(_, _, _, _)
\* the decoder publishes one detection to the listeners ls, in order
Emit(E, ls, code, confidence) ==
  IF ls = <<>> THEN E
  ELSE LET E1 == CASE variant = "five" -> onDetected5(E, Head(ls), code, confidence)
                   [] variant = "product" -> handleDetectionP(E, Head(ls), code)
                   [] OTHER -> onDetectedB(E, Head(ls), code)
       IN Emit(E1, Tail(ls), code, confidence)

\* setTimeout callbacks run in order of their delay, then of their creation
CanFire(i) == \A j \in 1..(i - 1) : timers[j].delay > timers[i].delay

DeviceIds == { cameras[i].deviceId : i \in 1..Len(cameras) }

\* identities of the renders whose functions listeners and timers hold
UsedIds(E) ==
  { E.detected[i].id : i \in 1..Len(E.detected) }
    \cup { E.timers[i].id : i \in 1..Len(E.timers) }

\* a render identity no reachable closure has
FreshId(E) ==
  CHOOSE n \in 1..(Cardinality(UsedIds(E)) + 1) :
    n \notin UsedIds(E) /\ \A m \in 1..(n - 1) : m \in UsedIds(E)

OpRec(name, user) ==
  [name |-> name, user |-> user, staleHit |-> FALSE, cancelled |-> FALSE,
   want |-> "", code |-> "", confidence |-> Undefined, err |-> "",
   from |-> scannerState]

\* the handler returned: its queued updates are applied, and the page renders
\* again when one of them changed the state
\* ScanResultUI is rendered while scannedCode is not empty; when it leaves the
\* page its state is dropped and what its pending continuations and timers
\* set afterwards is lost
Unmounted(E) ==
  [E EXCEPT !.stockUpdateLoading = FALSE, !.stockMessage = "",
            !.stockReqs = [i \in 1..Len(@) |-> [@[i] EXCEPT !.mounted = FALSE]],
            !.timers = [i \in 1..Len(@) |->
                          IF @[i].kind = "message"
                          THEN [@[i] EXCEPT !.mounted = FALSE] ELSE @[i]]]

\* the result of a handler as the next render shows it
Rendered(E) ==
  IF variant = "product" /\ E.scannedCode = "" THEN Unmounted(E) ELSE E

\* the set-state calls of a handler applied
CommitEnv(E, o) ==
  /\ scannerState' = E.scannerState
  /\ isScanning' = E.isScanning
  /\ scannedCode' = E.scannedCode
  /\ error' = E.error
  /\ selectedCamera' = E.selectedCamera
  /\ productInfo' = E.productInfo
  /\ isLoadingProduct' = E.isLoadingProduct
  /\ scanCount' = E.scanCount
  /\ productStock' = E.productStock
  /\ stockUpdateLoading' = E.stockUpdateLoading
  /\ stockMessage' = E.stockMessage
  /\ stockReqs' = E.stockReqs
  /\ inits' = E.inits
  /\ live' = E.live
  /\ running' = E.running
  /\ initialized' = E.initialized
  /\ detected' = E.detected
  /\ processed' = E.processed
  /\ timers' = E.timers
  /\ fetches' = E.fetches
  /\ calls' = E.calls
  /\ op' = [o EXCEPT !.staleHit = E.staleHit]
  /\ renderId' =
       IF << E.scannerState, E.isScanning, E.scannedCode, E.error,
             E.selectedCamera, E.productInfo, E.isLoadingProduct, E.scanCount,
             E.productStock >>
          # << scannerState, isScanning, scannedCode, error, selectedCamera,
               productInfo, isLoadingProduct, scanCount, productStock >>
       THEN FreshId(E) ELSE renderId
  /\ UNCHANGED << variant, hasInitialized, quaggaLoaded, isLoading, cameras >>

\* the page after a handler that makes no request the server receives in the
\* same step: its set-state calls applied, the result rendered
Commit(E, o) == CommitEnv(Rendered(E), o) /\ UNCHANGED serverVars

\* room for one more init request and listener within the bounds
Room == Len(inits) < MaxInits /\ Len(detected) < MaxListeners

\* ------------------------------------------------------- the product server
\* typeof v === 'number'
typeofNumber(v) == v.t \in {"number", "nan"}

RECURSIVE trimStart(_)
trimStart(s) == IF s # <<>> /\ Head(s) = " " THEN trimStart(Tail(s)) ELSE s

RECURSIVE trimEnd(_)
trimEnd(s) ==
  IF s # <<>> /\ s[Len(s)] = " " THEN trimEnd(SubSeq(s, 1, Len(s) - 1)) ELSE s

\* String.prototype.trim, for strings whose only white space is the blank
trim(s) == trimEnd(trimStart(s))

Digits == <<"0", "1", "2", "3", "4", "5", "6", "7", "8", "9">>

DigitValue(ch) == (CHOOSE i \in 1..Len(Digits) : Digits[i] = ch) - 1

RECURSIVE parseDigits(_)
parseDigits(s) ==
  IF s = <<>> THEN 0
  ELSE 10 * parseDigits(SubSeq(s, 1, Len(s) - 1)) + DigitValue(s[Len(s)])

IsDigits(s) == s # <<>> /\ \A i \in 1..Len(s) : s[i] \in Range(Digits)

\* Number(v), for undefined, null, numbers and the strings of at most 15
\* characters that hold no character of a fraction, an exponent, a radix
\* prefix or Infinity and no white space but the blank: such a string is
\* blank, a decimal integer with or without a sign, or not numeric at all
Number(v) ==
  CASE v.t = "number" -> v
    [] v.t = "null" -> Num(0)
    [] /\ v.t = "string" /\ Len(v.s) <= 15
       /\ \A i \in 1..Len(v.s) :
            v.s[i] \notin {".", "e", "E", "x", "X", "o", "O", "b", "B", "I",
                           "\t", "\n", "\r"} ->
         LET t == trim(v.s) IN
         IF t = <<>> THEN Num(0)
         ELSE IF IsDigits(t) THEN Num(parseDigits(t))
         ELSE IF Head(t) = "-" /\ IsDigits(Tail(t)) THEN Num(0 - parseDigits(Tail(t)))
         ELSE IF Head(t) = "+" /\ IsDigits(Tail(t)) THEN Num(parseDigits(Tail(t)))
         ELSE JSNaN
    [] v.t \in {"undefined", "nan"} -> JSNaN

\* a >= b, a - b and a + b on numbers; undefined converts to NaN
GreaterOrEqual(a, b) == a.t = "number" /\ b.t = "number" /\ a.n >= b.n

Minus(a, b) == IF a.t = "number" /\ b.t = "number" THEN Num(a.n - b.n) ELSE JSNaN

Plus(a, b) == IF a.t = "number" /\ b.t = "number" THEN Num(a.n + b.n) ELSE JSNaN

\* the keys the object literal answers without owning them (of these, the one
\* the requests use)
InheritedKeys == {KConstructor}

\* the store at module load; the texts are abbreviated
InitProducts ==
  [k \in {K1, K2, K3} |->
     CASE k = K1 -> [id |-> Str(K1), name |-> Str(<<"A">>), price |-> Num(15000),
                     category |-> Str(<<"e">>), stock |-> Num(50),
                     description |-> Str(<<"d", "1">>),
                     manufacturer |-> Str(<<"m", "1">>)]
       [] k = K2 -> [id |-> Str(K2), name |-> Str(<<"B">>), price |-> Num(8500),
                     category |-> Str(<<"h">>), stock |-> Num(30),
                     description |-> Str(<<"d", "2">>),
                     manufacturer |-> Str(<<"m", "2">>)]
       [] OTHER -> [id |-> Str(K3), name |-> Str(<<"C">>), price |-> Num(25000),
                    category |-> Str(<<"s">>), stock |-> Num(100),
                    description |-> Str(<<"d", "3">>),
                    manufacturer |-> Str(<<"m", "3">>)]]

NoData ==
  [id |-> JSUndefined, name |-> JSUndefined, price |-> JSUndefined,
   category |-> JSUndefined, stock |-> JSUndefined,
   description |-> JSUndefined, manufacturer |-> JSUndefined]

\* the function Object as a product: it has a read-only name and none of the
\* other fields
InitObjectFn == [NoData EXCEPT !.name = Str(<<"O", "b", "j", "e", "c", "t">>)]

\* products[barcode] is truthy
Found(b) == b.t = "string" /\ (b.s \in DOMAIN products \/ b.s \in InheritedKeys)

IsOwn(b) == b.t = "string" /\ b.s \in DOMAIN products

\* products[barcode], when it is truthy
Product(b) == IF IsOwn(b) THEN products[b.s] ELSE objectFn

\* { ...product }: the own enumerable properties, which a function's name is not
spread(p, own) == IF own THEN p ELSE [p EXCEPT !.name = JSUndefined]

\* product.price.toLocaleString() throws a TypeError
priceThrows(p) == p.price.t \in {"undefined", "null"}

NoResponse ==
  [kind |-> "none", status |-> 0, success |-> FALSE, hasData |-> FALSE,
   data |-> NoData, error |-> ""]

\* Response.json({ success: true, data }), status 200 by default: the body
\* is the JSON text of the envelope, in which a NaN is written as null; the
\* timestamp and formattedPrice fields of data are left out
Success(data) ==
  [kind |-> "response", status |-> 200, success |-> TRUE, hasData |-> TRUE,
   data |-> [f \in DOMAIN data |-> IF data[f].t = "nan" THEN JSNull ELSE data[f]],
   error |-> ""]

\* Response.json({ success: false, error }, { status })
Failure(status, message) ==
  [kind |-> "response", status |-> status, success |-> FALSE,
   hasData |-> FALSE, data |-> NoData, error |-> message]

\* the handler ended by an exception instead of a response
Thrown == [NoResponse EXCEPT !.kind = "throw", !.error = "TypeError"]

\* GET /server/products/:barcode
loader(b) ==
  IF b.t = "undefined" \/ b.s = <<>> \/ trim(b.s) = <<>>
  THEN Failure(400, "E_NO_BARCODE")
  ELSE IF ~Found(b) THEN Failure(404, "E_NOT_FOUND")
  ELSE IF priceThrows(Product(b)) THEN Thrown
  ELSE Success(spread(Product(b), IsOwn(b)))

\* fault variant: the answer after the record was written is the one of the
\* catch block
updated_Fails(p, own) == [p |-> p, response |-> Failure(500, "E_PROCESSING")]

\* the answer that carries the updated record; formatting its price is inside
\* the try block
updated(p, own) ==
  [p |-> p,
   response |-> IF priceThrows(p) THEN Failure(500, "E_PROCESSING")
                ELSE Success(spread(p, own))]

\* fault variant: id and stock are accepted as fields of update_info
allowedFields_All ==
  <<"name", "price", "category", "description", "manufacturer", "id", "stock">>

allowedFields == <<"name", "price", "category", "description", "manufacturer">>

RECURSIVE updateFields(_, _, _, _, _)
\* allowedFields.forEach(...) from field i on; assigning the name of a function
\* throws in module code
updateFields(p, body, own, i, done) ==
  IF i > Len(allowedFields) THEN [p |-> p, updated |-> done, thrown |-> FALSE]
  ELSE
    LET field == allowedFields[i]
        v == body[field]
    IN
    IF v.t = "undefined" THEN updateFields(p, body, own, i + 1, done)
    ELSE IF field = "price"
      THEN LET newPrice == Number(v) IN
           IF newPrice.t = "number" /\ newPrice.n >= 0
           THEN updateFields([p EXCEPT ![field] = newPrice], body, own, i + 1, TRUE)
           ELSE updateFields(p, body, own, i + 1, done)
    ELSE IF v.t = "string" /\ trim(v.s) # <<>>
      THEN IF ~own /\ field = "name"
           THEN [p |-> p, updated |-> done, thrown |-> TRUE]
           ELSE updateFields([p EXCEPT ![field] = Str(trim(v.s))], body, own,
                             i + 1, TRUE)
    ELSE updateFields(p, body, own, i + 1, done)

\* fault variant: the stock test is skipped
sufficientStock_Always(stock, quantity) == TRUE

\* fault variant: a request for the whole stock is refused
sufficientStock_Strict(stock, quantity) ==
  GreaterOrEqual(stock, quantity) /\ stock # quantity

\* product.stock >= body.quantity
sufficientStock(stock, quantity) == GreaterOrEqual(stock, quantity)

\* fault variant: the unsupported-action answer is sent with the default status
unsupportedAction_Status200 == [Failure(400, "E_UNSUPPORTED") EXCEPT !.status = 200]

\* the answer to a body no branch accepted
unsupportedAction == Failure(400, "E_UNSUPPORTED")

\* the try block of the action, after request.json(): the record of the
\* product afterwards and the answer
handleBody(p, body, own) ==
  IF body.kind # "object" THEN [p |-> p, response |-> Failure(500, "E_PROCESSING")]
  ELSE IF body.action = "decrease_stock" /\ typeofNumber(body.quantity)
    THEN IF sufficientStock(p.stock, body.quantity)
         THEN updated([p EXCEPT !.stock = Minus(p.stock, body.quantity)], own)
         ELSE [p |-> p, response |-> Failure(400, "E_INSUFFICIENT_STOCK")]
  ELSE IF body.action = "increase_stock" /\ typeofNumber(body.quantity)
    THEN updated([p EXCEPT !.stock = Plus(p.stock, body.quantity)], own)
  ELSE IF body.action = "update_info"
    THEN LET u == updateFields(p, body, own, 1, FALSE) IN
         IF u.thrown THEN [p |-> u.p, response |-> Failure(500, "E_PROCESSING")]
         ELSE IF u.updated THEN updated(u.p, own)
         ELSE [p |-> u.p, response |-> unsupportedAction]
  ELSE [p |-> p, response |-> unsupportedAction]

\* request bodies
NoBody ==
  [kind |-> "object", action |-> "", quantity |-> JSUndefined,
   name |-> JSUndefined, price |-> JSUndefined, category |-> JSUndefined,
   description |-> JSUndefined, manufacturer |-> JSUndefined,
   id |-> JSUndefined, stock |-> JSUndefined]

StockBody(a, q) == [NoBody EXCEPT !.action = a, !.quantity = q]

Bodies ==
  { StockBody("decrease_stock", Num(60)),
    StockBody("decrease_stock", Num(50)),
    StockBody("decrease_stock", Num(0 - 10)),
    StockBody("decrease_stock", Str(<<"5">>)),
    StockBody("increase_stock", Num(10)),
    StockBody("increase_stock", Num(0 - 60)),
    StockBody("restock", Num(10)),
    [NoBody EXCEPT !.action = "update_info", !.name = Str(<<" ", "X", " ">>),
                   !.price = Str(<<"9", "0">>)],
    [NoBody EXCEPT !.action = "update_info", !.name = Str(<<" ">>),
                   !.price = Num(0 - 5)],
    [NoBody EXCEPT !.action = "update_info", !.price = Str(<<"+", "5">>)],
    [NoBody EXCEPT !.action = "update_info", !.price = JSNull,
                   !.id = Str(<<"X">>), !.stock = Str(<<"9">>)],
    [NoBody EXCEPT !.kind = "invalid"] }

GetBarcodes ==
  { JSUndefined, Str(<<>>), Str(KBlank), Str(KUnknown), Str(K1), Str(K2),
    Str(KConstructor) }

PostBarcodes == { JSUndefined, Str(KUnknown), Str(K1), Str(KConstructor) }

InitStore ==
  /\ products = InitProducts
  /\ objectFn = InitObjectFn
  /\ pending = <<>>
  /\ posts = 0
  /\ response = NoResponse
  /\ req = [kind |-> "none", barcode |-> JSUndefined, body |-> NoBody]

\* a GET request
Get(b) ==
  /\ response' = loader(b)
  /\ req' = [kind |-> "loader", barcode |-> b, body |-> NoBody]
  /\ UNCHANGED << products, objectFn, pending, posts >>
  /\ UNCHANGED pageVars

\* a POST request made to the server directly (from: 0), up to its await of
\* request.json()
PostBegin(b, body) ==
  /\ posts < MaxPosts
  /\ posts' = posts + 1
  /\ req' = [kind |-> "actionBegin", barcode |-> b, body |-> body]
  /\ IF b.t = "undefined" \/ ~Found(b)
     THEN /\ response' = Failure(404, "E_NOT_FOUND")
          /\ UNCHANGED pending
     ELSE /\ pending' = Append(pending, [barcode |-> b, body |-> body,
                                         from |-> 0])
          /\ UNCHANGED response
  /\ UNCHANGED << products, objectFn >>
  /\ UNCHANGED pageVars

\* fault variant: the stock the request works on is the one read when the
\* module was loaded, so the test and the decrement of one request ignore
\* those of another
PostResume_StaleStock(i) ==
  /\ i \in 1..Len(pending) /\ pending[i].from = 0
  /\ LET r == pending[i]
         p == Product(r.barcode)
         stale == IF IsOwn(r.barcode)
                  THEN [p EXCEPT !.stock = InitProducts[r.barcode.s].stock]
                  ELSE p
         h == handleBody(stale, r.body, IsOwn(r.barcode))
     IN
     /\ response' = h.response
     /\ req' = [kind |-> "action", barcode |-> r.barcode, body |-> r.body]
     /\ IF IsOwn(r.barcode)
        THEN /\ products' = [products EXCEPT ![r.barcode.s] = h.p]
             /\ UNCHANGED objectFn
        ELSE /\ objectFn' = h.p
             /\ UNCHANGED products
  /\ pending' = RemoveAt(pending, i)
  /\ UNCHANGED posts
  /\ UNCHANGED pageVars

\* a POST request made to the server directly, from the moment its body is
\* parsed
PostResume(i) ==
  /\ i \in 1..Len(pending) /\ pending[i].from = 0
  /\ LET r == pending[i]
         h == handleBody(Product(r.barcode), r.body, IsOwn(r.barcode))
     IN
     /\ response' = h.response
     /\ req' = [kind |-> "action", barcode |-> r.barcode, body |-> r.body]
     /\ IF IsOwn(r.barcode)
        THEN /\ products' = [products EXCEPT ![r.barcode.s] = h.p]
             /\ UNCHANGED objectFn
        ELSE /\ objectFn' = h.p
             /\ UNCHANGED products
  /\ pending' = RemoveAt(pending, i)
  /\ UNCHANGED posts
  /\ UNCHANGED pageVars

Init ==
  /\ variant \in Variants
  /\ hasInitialized \in (IF variant = "product" THEN BOOLEAN ELSE {FALSE})
  /\ quaggaLoaded = FALSE
  /\ isLoading = TRUE
  /\ scannerState = "idle"
  /\ isScanning = FALSE
  /\ scannedCode = ""
  /\ error = ""
  /\ cameras = <<>>
  /\ selectedCamera = ""
  /\ productInfo = "null"
  /\ isLoadingProduct = FALSE
  /\ scanCount = 0
  /\ productStock = JSUndefined
  /\ stockUpdateLoading = FALSE
  /\ stockMessage = ""
  /\ stockReqs = <<>>
  /\ renderId = 1
  /\ inits = <<>>
  /\ live = 0
  /\ running = FALSE
  /\ initialized = FALSE
  /\ detected = <<>>
  /\ processed = 0
  /\ timers = <<>>
  /\ fetches = <<>>
  /\ calls = <<>>
  /\ op = OpRec("mount", FALSE)
  /\ InitStore

\* ------------------------------------------------------- camera enumeration
RECURSIVE DigitChars(_)
\* `${n}` for a natural number n: its decimal digits
DigitChars(n) ==
  IF n < 10 THEN << Digits[n + 1] >>
  ELSE DigitChars(n \div 10) \o << Digits[(n % 10) + 1] >>

\* devices.map(...): label || `camera ${index + 1}`
videoDevices(devs) ==
  [i \in 1..Len(devs) |->
     [deviceId |-> devs[i].deviceId,
      label |-> IF devs[i].label = <<>>
                THEN <<"c", "a", "m", "e", "r", "a", " ">> \o DigitChars(i)
                ELSE devs[i].label]]

IsBackLabel5(d) ==
  \/ includes(toLowerCase(d.label), NBack)
  \/ includes(toLowerCase(d.label), NRear)
  \/ includes(toLowerCase(d.label), NEnvironment)

IsBackLabelP(d) == includes(toLowerCase(d.label), NBack)

\* videoDevices.find(...): index of the first back camera, 0 if there is none
backCamera5(vd) ==
  IF \E i \in 1..Len(vd) : IsBackLabel5(vd[i])
  THEN CHOOSE i \in 1..Len(vd) :
         IsBackLabel5(vd[i]) /\ \A j \in 1..(i - 1) : ~IsBackLabel5(vd[j])
  ELSE 0

backCameraP(vd) ==
  IF \E i \in 1..Len(vd) : IsBackLabelP(vd[i])
  THEN CHOOSE i \in 1..Len(vd) :
         IsBackLabelP(vd[i]) /\ \A j \in 1..(i - 1) : ~IsBackLabelP(vd[j])
  ELSE 0

\* the deviceId loadCameras selects, "" when it selects none
defaultCamera(vd) ==
  LET i == IF variant = "product" THEN backCameraP(vd) ELSE backCamera5(vd)
  IN IF i # 0 THEN vd[i].deviceId
     ELSE IF Len(vd) > 0 THEN vd[1].deviceId ELSE ""

\* results of the mount effect: "import": the import of the decoder fails;
\* "denied": getUserMedia is refused; "enumerate": enumerateDevices fails
LoadOutcomes == {"import", "denied", "enumerate", "ok"}

\* fault variant: the tracks are stopped only after the devices were listed, so
\* a failing enumerateDevices leaves the stream open
loadCamerasCalls_StopAfter(outcome) ==
  CASE outcome = "import" -> <<>>
    [] outcome = "denied" -> <<"getUserMedia:rejected">>
    [] outcome = "enumerate" -> <<"getUserMedia", "enumerateDevices">>
    [] OTHER -> <<"getUserMedia", "enumerateDevices", "track.stop">>

\* the media calls of loadCameras, in order; the stream of a getUserMedia
\* that resolved is open until its tracks are stopped
loadCamerasCalls(outcome) ==
  CASE outcome = "import" -> <<>>
    [] outcome = "denied" -> <<"getUserMedia:rejected">>
    [] OTHER -> <<"getUserMedia", "track.stop", "enumerateDevices">>

\* fault variant: a refused camera access that is only logged
LoadQuagga_Silent(outcome, devs) ==
  /\ isLoading
  /\ quaggaLoaded' = (outcome # "import")
  /\ isLoading' = FALSE
  /\ cameras' = IF outcome = "ok" THEN videoDevices(devs) ELSE <<>>
  /\ selectedCamera' = IF outcome = "ok" THEN defaultCamera(videoDevices(devs)) ELSE ""
  /\ error' = IF outcome = "import" THEN "E_LIBRARY" ELSE ""
  /\ scannerState' = IF outcome = "import" /\ variant # "bool" THEN "error" ELSE "idle"
  /\ renderId' = 1
  /\ calls' = loadCamerasCalls(outcome)
  /\ op' = [OpRec("loadQuagga", FALSE) EXCEPT
              !.err = IF outcome = "ok" THEN "" ELSE outcome]
  /\ UNCHANGED << variant, hasInitialized, isScanning, scannedCode, productInfo,
                  isLoadingProduct, scanCount, productStock,
                  stockUpdateLoading, stockMessage, stockReqs, inits, live,
                  running, initialized, detected, processed, timers, fetches >>
  /\ UNCHANGED serverVars

\* fault variant: videoDevices[0].deviceId read without the length test, which
\* throws for an empty list and lands in the catch branch
LoadQuagga_Unguarded(outcome, devs) ==
  LET failed == outcome # "ok" \/ devs = <<>> IN
  /\ isLoading
  /\ quaggaLoaded' = (outcome # "import")
  /\ isLoading' = FALSE
  /\ cameras' = IF outcome = "ok" THEN videoDevices(devs) ELSE <<>>
  /\ selectedCamera' = IF failed THEN "" ELSE defaultCamera(videoDevices(devs))
  /\ error' = CASE outcome = "import" -> "E_LIBRARY"
                [] failed -> "E_PERMISSION"
                [] OTHER -> ""
  /\ scannerState' = IF failed /\ variant # "bool" THEN "error" ELSE "idle"
  /\ renderId' = 1
  /\ calls' = loadCamerasCalls(outcome)
  /\ op' = [OpRec("loadQuagga", FALSE) EXCEPT
              !.err = IF outcome = "ok" THEN "" ELSE outcome]
  /\ UNCHANGED << variant, hasInitialized, isScanning, scannedCode, productInfo,
                  isLoadingProduct, scanCount, productStock,
                  stockUpdateLoading, stockMessage, stockReqs, inits, live,
                  running, initialized, detected, processed, timers, fetches >>
  /\ UNCHANGED serverVars

\* the mount effect: import the decoder, then loadCameras
LoadQuagga(outcome, devs) ==
  /\ isLoading
  /\ quaggaLoaded' = (outcome # "import")
  /\ isLoading' = FALSE
  /\ cameras' = IF outcome = "ok" THEN videoDevices(devs) ELSE <<>>
  /\ selectedCamera' = IF outcome = "ok" THEN defaultCamera(videoDevices(devs)) ELSE ""
  /\ error' = CASE outcome = "import" -> "E_LIBRARY"
                [] outcome = "ok" -> ""
                [] OTHER -> "E_PERMISSION"
  /\ scannerState' = IF outcome # "ok" /\ variant # "bool" THEN "error" ELSE "idle"
  /\ renderId' = 1
  /\ calls' = loadCamerasCalls(outcome)
  /\ op' = [OpRec("loadQuagga", FALSE) EXCEPT
              !.err = IF outcome = "ok" THEN "" ELSE outcome]
  /\ UNCHANGED << variant, hasInitialized, isScanning, scannedCode, productInfo,
                  isLoadingProduct, scanCount, productStock,
                  stockUpdateLoading, stockMessage, stockReqs, inits, live,
                  running, initialized, detected, processed, timers, fetches >>
  /\ UNCHANGED serverVars

\* ----------------------------------------------------------- user actions
\* the start button
ClickStart ==
  /\ ~isLoading /\ Room
  /\ CASE variant = "five" ->
            scannerState = "idle" /\ quaggaLoaded /\ Len(cameras) > 0
              /\ selectedCamera # ""
       [] variant = "product" -> scannerState \in {"idle", "error"}
       [] OTHER -> ~isScanning /\ quaggaLoaded /\ selectedCamera # ""
  /\ Commit(startScanning(Env, Cur), OpRec("start", TRUE))

\* the stop button
ClickStop ==
  /\ ~isLoading
  /\ IF variant = "bool" THEN isScanning ELSE scannerState = "scanning"
  /\ Commit(CASE variant = "five" -> stopScanning5(Env, Cur)
              [] variant = "product" -> stopScanningP(Env, Cur)
              [] OTHER -> stopScanningB(Env, Cur),
            OpRec("stop", TRUE))

\* the new-scan button of the "five" page
ClickNewScan ==
  /\ variant = "five" /\ ~isLoading /\ scannerState = "success"
  /\ Len(timers) < MaxTimers
  /\ Commit(startNewScan(Env, Cur), OpRec("startNewScan", TRUE))

\* fault variant: a retry button that restarts the scan itself
ClickRetry_Restart ==
  /\ variant = "five" /\ ~isLoading /\ scannerState = "error" /\ Room
  /\ Commit(startScanning5([Env EXCEPT !.error = ""], Cur), OpRec("retry", TRUE))

\* the retry button of the "five" page
ClickRetry ==
  /\ variant = "five" /\ ~isLoading /\ scannerState = "error"
  /\ Commit([Env EXCEPT !.error = "", !.scannerState = "idle"], OpRec("retry", TRUE))

\* the reset button of the "product" page
ClickReset ==
  /\ variant = "product" /\ ~isLoading
  /\ Commit(handleReset(Env), OpRec("reset", TRUE))

\* the clear button next to a scan result
ClickClear ==
  /\ ~isLoading /\ scannedCode # ""
  /\ variant = "five" => scannerState = "success"
  /\ Commit(CASE variant = "five" ->
                   [Env EXCEPT !.scannedCode = "", !.scannerState = "idle"]
              [] variant = "product" -> onClear(Env)
              [] OTHER -> [Env EXCEPT !.scannedCode = ""],
            OpRec("clear", TRUE))

\* the camera selector, offered while it is rendered and not disabled
ChangeCamera(deviceId) ==
  /\ ~isLoading /\ deviceId \in DeviceIds /\ deviceId # selectedCamera
  /\ variant = "product" => Len(timers) < MaxTimers
  /\ CASE variant = "five" ->
            Len(cameras) > 1 /\ scannerState \notin {"scanning", "starting"}
       [] variant = "product" -> Len(cameras) >= 1 /\ scannerState # "scanning"
       [] OTHER -> Len(cameras) >= 1 /\ ~isScanning
  /\ Commit(CASE variant = "five" -> handleCameraChange5(Env, Cur, deviceId)
              [] variant = "product" -> handleCameraChangeP(Env, Cur, deviceId)
              [] OTHER -> handleCameraChangeB(Env, Cur, deviceId),
            [OpRec("handleCameraChange", TRUE) EXCEPT !.want = deviceId])

\* ------------------------------------------------------ asynchronous events
\* the decoder finishes the init request i and calls its callback with err
InitDone(i, err) ==
  /\ i \in 1..Len(inits)
  /\ err = "" => live < MaxLive
  /\ LET r == inits[i]
         E0 == [Env EXCEPT !.inits = RemoveAt(@, i)]
         E1 == IF err = ""
               THEN [E0 EXCEPT !.live = @ + 1,
                               !.initialized = hasInitialized]
               ELSE E0
     IN Commit(initCallback(E1, err),
               [OpRec("initCallback", FALSE) EXCEPT
                  !.cancelled = r.cancelled, !.err = err])

\* the running decoder finds code in a frame and publishes it
DetectedFrame(code, confidence) ==
  /\ running /\ detected # <<>>
  /\ variant = "product" => Len(fetches) + Len(detected) <= MaxFetches
  /\ Commit(Emit(Env, detected, code, confidence),
            [OpRec("onDetected", FALSE) EXCEPT !.code = code,
                                               !.confidence = confidence])

\* the running decoder publishes a processed frame: every processed listener
\* runs setScanCount(prev => prev + 1)
ProcessedFrame ==
  /\ running /\ processed > 0
  /\ scanCount + processed <= MaxScanCount
  /\ Commit([Env EXCEPT !.scanCount = @ + processed],
            OpRec("onProcessed", FALSE))

\* ------------------------------------------- stock updates, "product" page
\* the four stock buttons of ScanResultUI
StockButtons ==
  { <<"decrease_stock", 1>>, <<"increase_stock", 1>>,
    <<"decrease_stock", 5>>, <<"increase_stock", 10>> }

\* the disabled attribute of a stock button, apart from stockUpdateLoading
stockButtonDisabled(a, q, stock) ==
  CASE a = "decrease_stock" /\ q = 1 -> stock = Num(0)
    [] a = "decrease_stock" /\ q = 5 ->
         (stock.t = "number" /\ stock.n < 5) \/ stock.t = "null"
    [] OTHER -> FALSE

\* handleStockUpdate up to its await, with updateStock up to its fetch
handleStockUpdate(E, a, q) ==
  IF E.productInfo = "null" THEN E
  ELSE [E EXCEPT !.stockUpdateLoading = TRUE, !.stockMessage = "",
                 !.stockReqs = Append(@, [barcode |-> E.productInfo,
                                          action |-> a, quantity |-> q,
                                          mounted |-> TRUE, post |-> 0,
                                          answer |-> NoResponse])]

\* result.success of updateStock: the fetch was answered with success: true
stockSucceeded(r, outcome) ==
  outcome = "answer" /\ r.answer.kind = "response" /\ r.answer.success

\* setTimeout(() => setStockMessage(''), delay) of the ScanResultUI of r
SetTimeoutMessage(E, delay, r) ==
  [E EXCEPT !.timers = Append(@, [kind |-> "message", delay |-> delay,
                                  id |-> 0, mounted |-> r.mounted])]

\* updateStock after its await and handleStockUpdate after its own; the
\* set-state calls of handleStockUpdate reach the ScanResultUI that made the
\* request only while it is mounted
handleStockUpdateDone(E, r, outcome) ==
  LET ok == stockSucceeded(r, outcome)
      E1 == IF ok THEN [E EXCEPT !.productInfo = CodeOf(r.answer.data.id),
                                 !.productStock = r.answer.data.stock]
            ELSE E
      E2 == IF r.mounted
            THEN [E1 EXCEPT !.stockMessage = IF ok THEN "ok" ELSE "error",
                            !.stockUpdateLoading = FALSE]
            ELSE E1
  IN SetTimeoutMessage(E2, IF ok THEN StockMessageDelay ELSE StockErrorDelay, r)

\* the callback of a message timer
messageTimeout(E, t) == IF t.mounted THEN [E EXCEPT !.stockMessage = ""] ELSE E

\* a stock button of the result panel
ClickStock(a, q) ==
  /\ variant = "product" /\ ~isLoading
  /\ scannedCode # "" /\ productInfo # "null"
  /\ ~stockUpdateLoading /\ ~stockButtonDisabled(a, q, productStock)
  /\ Len(stockReqs) < MaxFetches
  /\ posts + Cardinality({i \in 1..Len(stockReqs) :
                            stockReqs[i].answer.kind = "none"}) < MaxStockPosts
  /\ Commit(handleStockUpdate(Env, a, q), OpRec("updateStock", TRUE))

\* the server receives the stock update i of the page: action runs up to its
\* await of request.json(), where the request stays suspended (post: its
\* number among the POST requests, by which the answer finds it)
StockBegin(i) ==
  /\ i \in 1..Len(stockReqs) /\ stockReqs[i].answer.kind = "none"
  /\ posts < MaxStockPosts
  /\ LET r == stockReqs[i]
         b == Str(BarcodeChars(r.barcode))
         body == StockBody(r.action, Num(r.quantity))
     IN /\ posts' = posts + 1
        /\ req' = [kind |-> "actionBegin", barcode |-> b, body |-> body]
        /\ UNCHANGED << products, objectFn >>
        /\ IF ~Found(b)
           THEN /\ response' = Failure(404, "E_NOT_FOUND")
                /\ UNCHANGED pending
                /\ CommitEnv(Rendered([Env EXCEPT !.stockReqs[i].answer =
                                                   Failure(404, "E_NOT_FOUND")]),
                             OpRec("actionBegin", FALSE))
           ELSE /\ pending' = Append(pending, [barcode |-> b, body |-> body,
                                               from |-> posts + 1])
                /\ UNCHANGED response
                /\ CommitEnv(Rendered([Env EXCEPT
                                         !.stockReqs[i].answer.kind = "suspended",
                                         !.stockReqs[i].post = posts + 1]),
                             OpRec("actionBegin", FALSE))

\* the suspended request j of the page resumes: action from the moment the
\* body is parsed, on the store as it is now; the answer goes to the fetch
\* that made the request, if the page still waits for it
StockResume(j) ==
  /\ j \in 1..Len(pending) /\ pending[j].from # 0
  /\ LET r == pending[j]
         h == handleBody(Product(r.barcode), r.body, IsOwn(r.barcode))
     IN /\ response' = h.response
        /\ req' = [kind |-> "action", barcode |-> r.barcode, body |-> r.body]
        /\ IF IsOwn(r.barcode)
           THEN /\ products' = [products EXCEPT ![r.barcode.s] = h.p]
                /\ UNCHANGED objectFn
           ELSE /\ objectFn' = h.p
                /\ UNCHANGED products
        /\ pending' = RemoveAt(pending, j)
        /\ UNCHANGED posts
        /\ CommitEnv(Rendered([Env EXCEPT !.stockReqs =
                                 [i \in 1..Len(@) |->
                                    IF @[i].post = r.from
                                    THEN [@[i] EXCEPT !.answer = h.response]
                                    ELSE @[i]]]),
                     OpRec("action", FALSE))

\* the fetch of the stock update i settles: with the server's answer, or
\* rejected
StockDone(i, outcome) ==
  /\ i \in 1..Len(stockReqs)
  /\ outcome = "answer" => stockReqs[i].answer.kind = "response"
  /\ Len(timers) < MaxTimers
  /\ LET r == stockReqs[i]
         E0 == [Env EXCEPT !.stockReqs = RemoveAt(@, i)]
     IN Commit(handleStockUpdateDone(E0, r, outcome),
               [OpRec("updateStockDone", FALSE) EXCEPT
                  !.code = r.barcode,
                  !.err = IF stockSucceeded(r, outcome) THEN "" ELSE outcome])

\* the server receives the product lookup i of the page: its loader runs and
\* answers from the store as it is now
FetchServe(i) ==
  /\ i \in 1..Len(fetches) /\ fetches[i].answer.kind = "none"
  /\ LET b == Str(BarcodeChars(fetches[i].code)) IN
        /\ response' = loader(b)
        /\ req' = [kind |-> "loader", barcode |-> b, body |-> NoBody]
        /\ UNCHANGED << products, objectFn, pending, posts >>
        /\ CommitEnv(Rendered([Env EXCEPT !.fetches[i].answer = loader(b)]),
                     OpRec("loader", FALSE))

\* the fetch of the product lookup i settles: with the answer the loader
\* gave, or rejected
FetchDone(i, outcome) ==
  /\ i \in 1..Len(fetches)
  /\ outcome = "ok"
       => fetches[i].answer.kind = "response" /\ fetches[i].answer.success
  /\ outcome = "notfound"
       => \/ fetches[i].answer.kind = "response" /\ ~fetches[i].answer.success
          \/ fetches[i].answer.kind = "throw"
  /\ Len(timers) < MaxTimers
  /\ LET f == fetches[i]
         E0 == [Env EXCEPT !.fetches = RemoveAt(@, i)]
         E1 == fetchProductInfoDone(E0, f.answer, outcome)
     IN Commit(SetTimeoutSuccess(E1, SuccessDelayP, f),
               [OpRec("fetchProductInfo", FALSE) EXCEPT
                  !.code = f.code,
                  !.err = IF outcome = "ok" THEN "" ELSE outcome])

\* the pending timer i fires
TimerFire(i) ==
  /\ i \in 1..Len(timers) /\ CanFire(i)
  /\ LET t == timers[i]
         E0 == [Env EXCEPT !.timers = RemoveAt(@, i)]
     IN CASE t.kind = "start" ->
               Room /\ Commit(startScanning(E0, t),
                              [OpRec("timerStart", FALSE) EXCEPT !.want = t.want])
          [] t.kind = "message" ->
               Commit(messageTimeout(E0, t), OpRec("messageTimeout", FALSE))
          [] OTHER -> Commit(successTimeout(E0, t), OpRec("successTimeout", FALSE))

\* the scanner lifecycle of the three pages: every event but the stock buttons
NextScanner ==
  \/ \E outcome \in LoadOutcomes, devs \in DeviceLists :
       LoadQuagga(outcome, devs)
  \/ ClickStart
  \/ ClickStop
  \/ ClickNewScan
  \/ ClickRetry
  \/ ClickReset
  \/ ClickClear
  \/ \E d \in {"a", "b"} : ChangeCamera(d)
  \/ \E i \in 1..MaxInits, err \in {"", "busy"} : InitDone(i, err)
  \/ \E code \in Codes, confidence \in Confidences : DetectedFrame(code, confidence)
  \/ ProcessedFrame
  \/ \E i \in 1..MaxFetches : FetchServe(i)
  \/ \E i \in 1..MaxFetches, outcome \in {"ok", "notfound", "throw"} :
       FetchDone(i, outcome)
  \/ \E i \in 1..MaxTimers : TimerFire(i)

SpecScanner == Init /\ [][NextScanner]_vars

\* the stock buttons of the product page and the requests they make
NextStockUpdate ==
  \/ \E b \in StockButtons : ClickStock(b[1], b[2])
  \/ \E i \in 1..MaxFetches : StockBegin(i)
  \/ \E j \in 1..MaxStockPosts : StockResume(j)
  \/ \E i \in 1..MaxFetches, outcome \in {"answer", "throw"} : StockDone(i, outcome)

\* every event of a mounted page
Next == NextScanner \/ NextStockUpdate

Spec == Init /\ [][Next]_vars

\* two of the device lists: no camera, or a front and a back camera
FixedCameraLists ==
  { devs \in DeviceLists : Len(devs) = 0 \/ devs[Len(devs)].label = LBack }

\* the "five" page alone
InitFive == Init /\ variant = "five"

NextFive ==
  \/ \E outcome \in LoadOutcomes, devs \in DeviceLists :
       LoadQuagga(outcome, devs)
  \/ ClickStart
  \/ ClickStop
  \/ ClickNewScan
  \/ ClickRetry
  \/ ClickClear
  \/ \E d \in {"a", "b"} : ChangeCamera(d)
  \/ \E i \in 1..MaxInits, err \in {"", "busy"} : InitDone(i, err)
  \/ \E code \in Codes, confidence \in Confidences : DetectedFrame(code, confidence)
  \/ ProcessedFrame
  \/ \E i \in 1..MaxTimers : TimerFire(i)

SpecFive == InitFive /\ [][NextFive]_vars

\* the three pages with the camera left as loadCameras selected it, reading
\* barcodes the store holds
NextFixedCamera ==
  \/ \E outcome \in LoadOutcomes, devs \in FixedCameraLists :
       LoadQuagga(outcome, devs)
  \/ ClickStart
  \/ ClickStop
  \/ ClickNewScan
  \/ ClickRetry
  \/ ClickReset
  \/ ClickClear
  \/ \E i \in 1..MaxInits, err \in {"", "busy"} : InitDone(i, err)
  \/ \E code \in Codes \cap ProductKeys, confidence \in Confidences :
       DetectedFrame(code, confidence)
  \/ ProcessedFrame
  \/ \E i \in 1..MaxFetches : FetchServe(i)
  \/ \E i \in 1..MaxFetches, outcome \in {"ok", "notfound", "throw"} :
       FetchDone(i, outcome)
  \/ \E i \in 1..MaxTimers : TimerFire(i)

SpecFixedCamera == Init /\ [][NextFixedCamera]_vars

\* the product page with its stock buttons, the camera list as above
InitStock == Init /\ variant = "product"

NextStock ==
  \/ \E outcome \in LoadOutcomes, devs \in FixedCameraLists :
       LoadQuagga(outcome, devs)
  \/ ClickStart
  \/ ClickStop
  \/ ClickReset
  \/ ClickClear
  \/ \E i \in 1..MaxInits, err \in {"", "busy"} : InitDone(i, err)
  \/ \E code \in Codes, confidence \in Confidences : DetectedFrame(code, confidence)
  \/ \E i \in 1..MaxFetches : FetchServe(i)
  \/ \E i \in 1..MaxFetches, outcome \in {"ok", "notfound", "throw"} :
       FetchDone(i, outcome)
  \/ \E i \in 1..MaxTimers : TimerFire(i)
  \/ NextStockUpdate

SpecStock == InitStock /\ [][NextStock]_vars

\* the product server alone, beside a page that stays as it was mounted
InitServer == Init /\ variant = "product" /\ ~hasInitialized

NextServer ==
  \/ \E b \in GetBarcodes : Get(b)
  \/ \E b \in PostBarcodes, body \in Bodies : PostBegin(b, body)
  \/ \E i \in 1..MaxPosts : PostResume(i)

SpecServer == InitServer /\ [][NextServer]_vars

\* ================================================================== claims
\* decoder sessions: init requests issued and not finished, plus streams held
SessionCount == Len(inits) + live

\* position of the first entry x of the call log s, 0 if there is none
IndexOf(s, x) ==
  IF \E i \in 1..Len(s) : s[i] = x
  THEN CHOOSE i \in 1..Len(s) : s[i] = x /\ \A j \in 1..(i - 1) : s[j] # x
  ELSE 0

\* C1: at most one decoder session is live or initializing at any instant
\* (stated for the "five" page, where no stop runs between the two inits).
C1_AtMostOneSession == variant = "five" => SessionCount <= 1

\* C2: a detection listener of a session that stopScanning() was called for
\* never changes scannerState or scannedCode afterwards.
C2_NoStaleDetection == ~op.staleHit

\* C3: a start() that arrives while the state is Starting or Scanning issues
\* no decoder init and registers no listener.
C3_StartIgnoredWhileActive ==
  [][(scannerState = "starting" \/ scannerState = "scanning")
       => ("init" \notin Range(calls') /\ "onDetected" \notin Range(calls'))]_vars

C5_RestartUsesNewCamera ==
  (op.name = "timerStart" /\ op.want # "" /\ "init" \in Range(calls))
    => inits[Len(inits)].dev = op.want

\* C6: a start() made while a decoder session is live or initializing stops
\* the decoder and detaches its listeners before it issues the new init.
C6_StartTearsDownFirst ==
  [][(variant \in {"five", "product"} /\ SessionCount > 0
        /\ "init" \in Range(calls'))
       => /\ IndexOf(calls', "stop") # 0
          /\ IndexOf(calls', "offDetected") # 0
          /\ IndexOf(calls', "stop") < IndexOf(calls', "init")
          /\ IndexOf(calls', "offDetected") < IndexOf(calls', "init")]_vars

\* C7: in every execution of stopScanning() the detection and processing
\* listeners are unregistered before Quagga.stop() is called.
C7_DetachBeforeStop ==
  \A i \in 1..Len(calls) :
    calls[i] = "stop"
      => \E j \in 1..(i - 1) :
           /\ calls[j] = "offDetected"
           /\ \A k \in j..i : calls[k] # "stopScanning"

\* C8: at most one detection listener is registered with the decoder (stated
\* for the "five" page, whose start button is hidden while a start is pending).
C8_OneListener == variant = "five" => Len(detected) <= 1

\* C9: the callback of an init request that was pending when stopScanning()
\* ran does not start the decoder.
C9_StopCancelsPendingInit ==
  (op.name = "initCallback" /\ op.cancelled) => "start" \notin Range(calls)

\* C10: scannerState leaves Error only by a handler the user invoked; in
\* particular the success timer never moves it out of Error.
C10_ErrorLeftOnlyByUser ==
  [][(scannerState = "error" /\ scannerState' # "error")
       => op'.name # "successTimeout"]_vars

\* C11: when the success timer fires while the page is still in Success (the
\* user did nothing in between), it returns scannerState to Idle.
C11_SuccessTimeoutToIdle ==
  [][(op'.name = "successTimeout" /\ scannerState = "success")
       => scannerState' = "idle"]_vars

\* C12: ("five" page) an accepted detection in Scanning records the code in
\* scannedCode, stops the decoder and leaves scannerState at Success: the
\* handler's stopScanning call does not move it on to Idle.
C12_DetectionToSuccess ==
  [][(variant = "five" /\ scannerState = "scanning" /\ op'.name = "onDetected"
        /\ op'.confidence >= ConfidenceThreshold)
       => /\ scannedCode' = op'.code
          /\ scannerState' = "success"
          /\ ~running'
          /\ "stop" \in Range(calls')]_vars

C12_Witness ==
  /\ variant = "five" /\ op.name = "onDetected" /\ op.from = "scanning"
  /\ op.confidence >= ConfidenceThreshold
  /\ scannerState = "success" /\ scannedCode = op.code /\ ~running

\* C13: scannerState becomes Scanning only in the callback of a decoder init
\* that succeeded, which also starts the decoder; it is never entered before.
C13_ScanningOnlyAfterInit ==
  [][(scannerState # "scanning" /\ scannerState' = "scanning")
       => (op'.name = "initCallback" /\ "start" \in Range(calls'))]_vars

\* C14: ("five" and "product" pages) the callback of a decoder init that
\* failed puts scannerState in Error, records a non-empty reason in error and
\* does not start the decoder.
C14_InitFailureToError ==
  [][((variant = "five" \/ variant = "product") /\ op'.name = "initCallback"
        /\ op'.err # "")
       => /\ scannerState' = "error"
          /\ error' # ""
          /\ "start" \notin Range(calls')]_vars

C14_Witness ==
  /\ variant = "five" /\ op.name = "initCallback" /\ op.err # ""
  /\ op.from = "starting"
  /\ scannerState = "error" /\ error # "" /\ "start" \notin Range(calls)

\* C15: ("five" page) the stop button pressed in Scanning stops the decoder
\* and moves scannerState to Idle.
C15_StopInScanning ==
  [][(variant = "five" /\ scannerState = "scanning" /\ op'.name = "stop")
       => /\ scannerState' = "idle"
          /\ ~running'
          /\ "stop" \in Range(calls')]_vars

C15_Witness ==
  /\ variant = "five" /\ op.name = "stop" /\ op.from = "scanning"
  /\ "stop" \in Range(calls)
  /\ scannerState = "idle" /\ ~running

\* C16: a reset issued in Success (the clear button of the "five" page, the
\* reset button of the "product" page) moves scannerState to Idle and clears
\* the result: scannedCode is empty and, on the product page, productInfo null.
C16_ResetInSuccess ==
  [][(scannerState = "success"
        /\ ((variant = "five" /\ op'.name = "clear")
              \/ (variant = "product" /\ op'.name = "reset")))
       => /\ scannerState' = "idle"
          /\ scannedCode' = ""
          /\ (variant = "product" => productInfo' = "null")]_vars

C16_Witness ==
  /\ variant = "product" /\ op.name = "reset" /\ op.from = "success"
  /\ scannerState = "idle" /\ scannedCode = "" /\ productInfo = "null"

\* C17: a retry issued in Error (the retry button of the "five" page, the
\* reset button of the "product" page) moves scannerState to Idle and clears
\* error, and makes no decoder call: no session is started.
C17_RetryInError ==
  [][(scannerState = "error"
        /\ ((variant = "five" /\ op'.name = "retry")
              \/ (variant = "product" /\ op'.name = "reset")))
       => /\ scannerState' = "idle"
          /\ error' = ""
          /\ calls' = <<>>
          /\ inits' = inits /\ running' = running]_vars

C17_Witness ==
  /\ variant = "five" /\ op.name = "retry" /\ op.from = "error"
  /\ scannerState = "idle" /\ error = "" /\ calls = <<>> /\ inits = <<>>

\* stopScanning of the mounted page
stopScanning(E, c) ==
  CASE variant = "five" -> stopScanning5(E, c)
    [] variant = "product" -> stopScanningP(E, c)
    [] OTHER -> stopScanningB(E, c)

\* the React state and the decoder state of an environment
ReactState(E) ==
  << E.scannerState, E.isScanning, E.scannedCode, E.error, E.selectedCamera,
     E.productInfo, E.isLoadingProduct, E.scanCount, E.productStock,
     E.stockUpdateLoading, E.stockMessage >>

DecoderState(E) ==
  << E.inits, E.live, E.running, E.initialized, E.detected, E.processed >>

\* the closure of the render that follows a handler's result E
After(E) == [Cur EXCEPT !.st = E.scannerState]

\* C18: stopScanning() is idempotent and safe when nothing is started. Called
\* in Idle while no session exists it changes no React state and no decoder
\* state; called twice in a row (from the same render or from the next) it
\* leaves the state one call leaves; in Success or Error it leaves
\* scannerState as it is.
C18_StopIdempotent ==
  LET once == stopScanning(Env, Cur)
      idle == IF variant = "bool" THEN ~isScanning ELSE scannerState = "idle"
      noSession == inits = <<>> /\ live = 0 /\ ~running /\ ~initialized
                     /\ detected = <<>> /\ processed = 0
  IN /\ (idle /\ noSession) => ReactState(once) = ReactState(Env)
     /\ (idle /\ noSession) => DecoderState(once) = DecoderState(Env)
     /\ ReactState(stopScanning(once, Cur)) = ReactState(once)
     /\ DecoderState(stopScanning(once, Cur)) = DecoderState(once)
     /\ ReactState(stopScanning(once, After(once))) = ReactState(once)
     /\ DecoderState(stopScanning(once, After(once))) = DecoderState(once)
     /\ (variant # "bool" /\ scannerState \in {"success", "error"})
          => once.scannerState = scannerState

\* the stop button has just ended the only session: the page is Idle with no
\* session left, where a second stopScanning changes nothing
C18_Witness ==
  /\ op.name = "stop" /\ op.from = "scanning" /\ "stopScanning" \in Range(calls)
  /\ scannerState = "idle" /\ scanCount = 0
  /\ inits = <<>> /\ live = 0 /\ ~running /\ ~initialized
  /\ detected = <<>> /\ processed = 0
  /\ ReactState(stopScanning(Env, Cur)) = ReactState(Env)
  /\ DecoderState(stopScanning(Env, Cur)) = DecoderState(Env)

\* C19: ("five" page) the detection listener accepts a result iff its
\* confidence is at least 70: with 70 the code is recorded and the state is
\* Success; with 69, or without a confidence, nothing changes.
C19_ConfidenceFilter ==
  [][(variant = "five" /\ op'.name = "onDetected")
       => IF op'.confidence >= ConfidenceThreshold
          THEN scannedCode' = op'.code /\ scannerState' = "success"
          ELSE /\ scannedCode' = scannedCode /\ scannerState' = scannerState
               /\ calls' = <<>> /\ detected' = detected /\ running' = running]_vars

C19_Witness ==
  /\ variant = "five" /\ op.name = "onDetected"
  /\ op.confidence = ConfidenceThreshold
  /\ scannedCode = op.code /\ scannerState = "success"

\* C20: on every page, a detection whose confidence is below the threshold
\* changes neither scannedCode nor scannerState.
C20_LowConfidenceDiscarded ==
  [][(op'.name = "onDetected" /\ op'.confidence # Undefined
        /\ op'.confidence < ConfidenceThreshold)
       => (scannedCode' = scannedCode /\ scannerState' = scannerState)]_vars

\* C21: ("five" page) a detection rejected for low confidence is silently
\* ignored: scannerState, scannedCode and error keep their values, the decoder
\* keeps running and the listeners stay registered; a high-confidence
\* detection that follows it is accepted.
C21_RejectedIsIgnored ==
  [][(variant = "five" /\ op'.name = "onDetected")
       => /\ op'.confidence < ConfidenceThreshold
             => /\ scannerState' = scannerState /\ scannedCode' = scannedCode
                /\ error' = error /\ running' = running
                /\ detected' = detected /\ processed' = processed
                /\ calls' = <<>>
          /\ (op.name = "onDetected" /\ op.confidence < ConfidenceThreshold
                /\ op'.confidence >= ConfidenceThreshold)
             => (scannedCode' = op'.code /\ scannerState' = "success")]_vars

C21_Witness ==
  /\ variant = "five" /\ op.name = "onDetected"
  /\ op.confidence = ConfidenceThreshold - 1 /\ op.from = "scanning"
  /\ scannerState = "scanning" /\ scannedCode = "" /\ error = ""
  /\ running /\ detected # <<>>

\* C22: a product lookup that fails (product not found, or the request
\* itself fails) leaves scannerState as it was before the answer arrived.
C22_LookupFailureKeepsState ==
  [][(op'.name = "fetchProductInfo" /\ op'.err # "")
       => scannerState' = scannerState]_vars

\* C23: when camera access is refused during enumeration, a non-empty error is
\* recorded and the page enters Error (the "bool" page, which has no scanner
\* state, records the error only); the camera list is empty and no camera is
\* selected. While the camera list is empty no init request, running decoder
\* or timer exists, so nothing is retried or started automatically.
C23_PermissionDenied ==
  [][/\ (op'.name = "loadQuagga" /\ op'.err = "denied")
          => /\ error' # ""
             /\ variant # "bool" => scannerState' = "error"
             /\ cameras' = <<>> /\ selectedCamera' = ""
             /\ inits' = <<>> /\ timers' = <<>> /\ ~running'
     /\ (~isLoading' /\ cameras' = <<>>)
          => (inits' = <<>> /\ timers' = <<>> /\ ~running')]_vars

C23_Witness ==
  /\ variant = "five" /\ op.name = "loadQuagga" /\ op.err = "denied"
  /\ scannerState = "error" /\ error # "" /\ cameras = <<>>
  /\ selectedCamera = "" /\ inits = <<>> /\ timers = <<>> /\ ~running

\* C24: after a successful enumeration the selected camera is the first one
\* whose label contains "back", "rear" or "environment" in any letter case,
\* otherwise the first of the list (none for an empty list).
C24_DefaultCamera ==
  (op.name = "loadQuagga" /\ op.err = "")
    => selectedCamera =
         IF backCamera5(cameras) # 0 THEN cameras[backCamera5(cameras)].deviceId
         ELSE IF Len(cameras) > 0 THEN cameras[1].deviceId ELSE ""

\* C25: an enumeration that succeeds without finding a video input fails
\* silently: the camera list and selectedCamera are empty, no error message is
\* set and scannerState is not Error.
C25_NoCameraSilent ==
  [][(op'.name = "loadQuagga" /\ op'.err = "" /\ cameras' = <<>>)
       => /\ selectedCamera' = ""
          /\ error' = ""
          /\ scannerState' = "idle"]_vars

C25_Witness ==
  /\ variant = "five" /\ op.name = "loadQuagga" /\ op.err = ""
  /\ "enumerateDevices" \in Range(calls) /\ cameras = <<>>
  /\ selectedCamera = "" /\ error = "" /\ scannerState = "idle"

\* C26: the stream the enumerator acquires is released before the devices are
\* enumerated: every resolved getUserMedia is followed by the stop of its
\* tracks, and that stop precedes enumerateDevices, so listCameras ends with no
\* open stream whether it succeeds or enumerateDevices fails.
C26_StreamReleased ==
  op.name = "loadQuagga"
    => /\ "getUserMedia" \in Range(calls)
            => /\ "track.stop" \in Range(calls)
               /\ IndexOf(calls, "getUserMedia") < IndexOf(calls, "track.stop")
       /\ "enumerateDevices" \in Range(calls)
            => /\ "track.stop" \in Range(calls)
               /\ IndexOf(calls, "track.stop") < IndexOf(calls, "enumerateDevices")
       /\ op.err \in {"import", "denied"} => "getUserMedia" \notin Range(calls)

C26_Witness ==
  /\ variant = "five" /\ op.name = "loadQuagga" /\ op.err = "enumerate"
  /\ calls = <<"getUserMedia", "track.stop", "enumerateDevices">>
  /\ scannerState = "error" /\ cameras = <<>>

\* C27: a GET for a barcode of the store answers 200 with success and the
\* product's id and current stock (50 for 123456789 before any POST); a GET for
\* any other barcode that is not blank answers 404 without success.
C27_GetByBarcode ==
  /\ posts = 0 => products[K1].stock = Num(50)
  /\ (req.kind = "loader" /\ req.barcode.t = "string" /\ trim(req.barcode.s) # <<>>)
       => IF req.barcode.s \in DOMAIN products
          THEN /\ response.kind = "response" /\ response.status = 200
               /\ response.success /\ response.hasData
               /\ response.data.id = req.barcode
               /\ response.data.stock = products[req.barcode.s].stock
          ELSE /\ response.kind = "response" /\ response.status = 404
               /\ ~response.success

\* C28: a POST decrease_stock whose quantity exceeds the product's current
\* stock answers 400 without success, with the insufficient-stock error, and
\* leaves the store as it was.
C28_InsufficientStock ==
  [][(/\ req'.kind = "action" /\ req'.body.kind = "object"
      /\ req'.body.action = "decrease_stock"
      /\ req'.body.quantity.t = "number"
      /\ IsOwn(req'.barcode)
      /\ Product(req'.barcode).stock.t = "number"
      /\ req'.body.quantity.n > Product(req'.barcode).stock.n)
       => /\ response'.kind = "response" /\ response'.status = 400
          /\ ~response'.success
          /\ response'.error = "E_INSUFFICIENT_STOCK"
          /\ products' = products]_vars

C28_Witness ==
  /\ req.kind = "action" /\ req.barcode = Str(K1)
  /\ req.body = StockBody("decrease_stock", Num(60))
  /\ response.status = 400 /\ ~response.success
  /\ response.error = "E_INSUFFICIENT_STOCK"
  /\ products[K1].stock = Num(50)

\* C29: a POST decrease_stock with quantity <= stock (equality included), and
\* a POST increase_stock, answer with success and the updated record, whose
\* stock is the previous stock minus, respectively plus, the quantity; the
\* store changes in no other step, and a GET answers with the stock the store
\* holds, so a GET after the POST with no POST in between returns that stock.
C29_StockArithmetic ==
  [][/\ (/\ req'.kind = "action" /\ req'.body.kind = "object"
         /\ req'.body.quantity.t = "number"
         /\ IsOwn(req'.barcode)
         /\ Product(req'.barcode).stock.t = "number")
          => LET k == req'.barcode.s
                 q == req'.body.quantity.n
                 before == products[k].stock.n
             IN
             /\ (req'.body.action = "decrease_stock" /\ q <= before)
                  => /\ response'.success /\ response'.status = 200
                     /\ response'.data.id = req'.barcode
                     /\ response'.data.stock = Num(before - q)
                     /\ products'[k].stock = Num(before - q)
             /\ req'.body.action = "increase_stock"
                  => /\ response'.success /\ response'.status = 200
                     /\ response'.data.id = req'.barcode
                     /\ response'.data.stock = Num(before + q)
                     /\ products'[k].stock = Num(before + q)
     /\ products' # products => req'.kind = "action"
     /\ (req'.kind = "loader" /\ IsOwn(req'.barcode))
          => /\ response'.success
             /\ response'.data.stock = products[req'.barcode.s].stock
             /\ products' = products]_vars

C29_Witness ==
  /\ req.kind = "loader" /\ req.barcode = Str(K1)
  /\ response.success /\ response.data.stock = Num(0)
  /\ products[K1].stock = Num(0) /\ posts = 1 /\ pending = <<>>

\* C30: every answer of the loader and of the action is an envelope: success
\* is true exactly when the status is 200 and a data record is present, and
\* false exactly when the status is 400, 404 or 500 and an error message is
\* present.
C30_Envelope ==
  response.kind = "response"
    => /\ response.success <=> (response.status = 200 /\ response.hasData)
       /\ ~response.success
            <=> (response.status \in {400, 404, 500} /\ response.error # "")

C30_Witness ==
  /\ req.kind = "action" /\ req.body.action = "restock"
  /\ response.kind = "response" /\ response.status = 400
  /\ ~response.success /\ ~response.hasData /\ response.error = "E_UNSUPPORTED"

\* C35: after any sequence of POST requests with numeric quantities (negative
\* ones included) the stock of every product of the store is a number >= 0.
C35_StockNonNegative ==
  \A k \in DOMAIN products :
    products[k].stock.t = "number" /\ products[k].stock.n >= 0

\* C36: POST decrease_stock requests on one barcode that overlap at their
\* await of the body run their stock test and their decrement in one piece:
\* a request with a quantity >= 0 succeeds only if the stock the store holds
\* at that moment covers it and then lowers that stock by the quantity, and
\* otherwise leaves it, so a stock >= 0 is never overdrawn.
C36_DecreaseAtomic ==
  [][(/\ req'.kind = "action" /\ req'.body.kind = "object"
      /\ req'.body.action = "decrease_stock"
      /\ req'.body.quantity.t = "number" /\ req'.body.quantity.n >= 0
      /\ IsOwn(req'.barcode)
      /\ Product(req'.barcode).stock.t = "number")
       => LET k == req'.barcode.s
              q == req'.body.quantity.n
              before == products[k].stock.n
          IN /\ response'.success
                  => (q <= before /\ products'[k].stock = Num(before - q))
             /\ ~response'.success => products'[k].stock = products[k].stock
             /\ before >= 0 => products'[k].stock.n >= 0]_vars

\* two decreases of the whole stock were suspended together; one has resumed
\* and emptied the stock while the other is still suspended
C36_Witness ==
  /\ req.kind = "action" /\ req.barcode = Str(K1)
  /\ req.body = StockBody("decrease_stock", Num(50))
  /\ response.success /\ products[K1].stock = Num(0) /\ posts = 2
  /\ pending = << [barcode |-> Str(K1),
                   body |-> StockBody("decrease_stock", Num(50)),
                   from |-> 0] >>

\* C37: the store is written only by a POST that answers with success: a GET,
\* the first part of a POST (its 404 answer included) and a POST that answers
\* 400 or 500 leave every product record as it was.
C37_OnlySuccessWrites ==
  [][/\ products' # products
          => (req'.kind = "action" /\ response'.kind = "response"
                /\ response'.success /\ response'.status = 200)
     /\ (req'.kind \in {"loader", "actionBegin"}
           \/ (req'.kind = "action" /\ response'.status \in {400, 404, 500}))
          => products' = products]_vars

\* an update_info without a valid field was answered 400 on the untouched store
C37_Witness ==
  /\ req.kind = "action" /\ req.barcode = Str(K1)
  /\ req.body.action = "update_info" /\ req.body.price = Num(0 - 5)
  /\ response.status = 400 /\ ~response.success
  /\ products = InitProducts

\* C38: update_info writes only name, price, category, description and
\* manufacturer of the addressed product. The barcodes of the store never
\* change and every record keeps its key as id; an update_info request leaves
\* the stock of its product and every other record as they were.
C38_UpdateInfoFrame ==
  /\ [](DOMAIN products = {K1, K2, K3}
          /\ \A k \in DOMAIN products : products[k].id = Str(k))
  /\ [][(req'.kind = "action" /\ req'.body.kind = "object"
           /\ req'.body.action = "update_info")
          => /\ \A k \in DOMAIN products :
                  /\ products'[k].stock = products[k].stock
                  /\ products'[k].id = products[k].id
                  /\ k # req'.barcode.s => products'[k] = products[k]]_vars

\* an update_info carrying id, stock and price changed the price alone
C38_Witness ==
  /\ req.kind = "action" /\ req.barcode = Str(K1)
  /\ req.body.action = "update_info" /\ req.body.id = Str(<<"X">>)
  /\ response.success /\ response.data.price = Num(0)
  /\ products[K1] = [InitProducts[K1] EXCEPT !.price = Num(0)]
  /\ products[K2] = InitProducts[K2]

\* C39: ("five" page) whenever scannerState is Success the recorded
\* scannedCode is not empty.
C39_SuccessHasCode ==
  (variant = "five" /\ scannerState = "success") => scannedCode # ""

\* a detection published after a new scan was requested: Success with its code
C39_Witness ==
  /\ variant = "five" /\ op.name = "onDetected" /\ op.from = "scanning"
  /\ op.confidence >= ConfidenceThreshold
  /\ scannerState = "success" /\ scannedCode = "NOPE" /\ scannedCode = op.code

\* C40: startScanning does nothing unless the decoder library is loaded and a
\* camera is selected. While selectedCamera is empty no decoder init is
\* pending and no listener is registered, and a start (by the button or by a
\* timer) leaves scannerState, scannedCode, error and the decoder as they are;
\* the same holds while the library is not loaded.
C40_StartNeedsCamera ==
  /\ [](selectedCamera = "" => (inits = <<>> /\ detected = <<>> /\ ~running))
  /\ [][((selectedCamera = "" \/ ~quaggaLoaded)
           /\ (op'.name = "start" \/ op'.name = "timerStart"))
          => /\ scannerState' = scannerState /\ scannedCode' = scannedCode
             /\ error' = error /\ isScanning' = isScanning
             /\ inits' = inits /\ detected' = detected
             /\ processed' = processed /\ running' = running
             /\ calls' = <<>>]_vars

\* the start button of the product page pressed after camera access was refused
C40_Witness ==
  /\ variant = "product" /\ op.name = "start" /\ op.from = "error"
  /\ selectedCamera = "" /\ cameras = <<>> /\ quaggaLoaded
  /\ scannerState = "error" /\ error # ""
  /\ inits = <<>> /\ detected = <<>> /\ calls = <<>>

\* C33: ("five" and "product" pages) whenever scannerState is Idle, Success or
\* Error no decoder session is live or initializing.
C33_StateMatchesDecoder ==
  (variant \in {"five", "product"} /\ scannerState \in {"idle", "success", "error"})
    => (inits = <<>> /\ live = 0 /\ ~running)

\* C34: ("product" page) whenever productInfo is not null it is the record of
\* the current scannedCode.
C34_ProductInfoMatchesCode ==
  (variant = "product" /\ productInfo # "null") => productInfo = scannedCode

\* C31: the lifecycle has no terminal state: in every reachable state some
\* event (a user action, the completion of an init, a detection or a timer)
\* can happen.
C31_NoTerminalState == ENABLED Next

\* ---------------------------------------------------------------------
\* The auto-restart page (home.tsx 505-721): isScanning, scannedCode,
\* error and isLoading are its whole state; it has no camera list.

\* the delay of the pause timer set by the detection listener
PauseDelay == 500

\* the delay of the restart timer set by the pause timer
RestartDelay == 1000

\* what the functions of the current render close over: isScanning
CurA == [id |-> renderId, st |-> isScanning, cam |-> ""]

SetTimeoutPause(E, c) ==
  [E EXCEPT !.timers = Append(@, [kind |-> "pause", delay |-> PauseDelay,
                                  id |-> c.id, st |-> c.st, cam |-> "",
                                  want |-> ""])]

SetTimeoutRestart(E, c) ==
  [E EXCEPT !.timers = Append(@, [kind |-> "restart", delay |-> RestartDelay,
                                  id |-> c.id, st |-> c.st, cam |-> "",
                                  want |-> ""])]

\* startScanning of the render c: init, then a listener holding c
startScanningA(E, c) ==
  IF ~quaggaLoaded THEN E
  ELSE QuaggaOnDetected(QuaggaInit([E EXCEPT !.error = ""], "environment"), c)

initCallbackA(E, err) ==
  IF err # "" THEN [E EXCEPT !.error = "E_CAMERA_START"]
  ELSE [QuaggaStart(E) EXCEPT !.isScanning = TRUE]

\* the listener l registered by startScanning: publish the code, set the pause timer
onDetectedA(E, l, code) ==
  SetTimeoutPause([E EXCEPT !.scannedCode = code], l)

RECURSIVE EmitA(_, _, _)
EmitA(E, ls, code) ==
  IF ls = <<>> THEN E
  ELSE EmitA(onDetectedA(E, Head(ls), code), Tail(ls), code)

\* the 500 ms callback: tests the isScanning its render saw
pauseTimeout(E, t) ==
  IF quaggaLoaded /\ t.st THEN SetTimeoutRestart(QuaggaStop(E), t) ELSE E

\* the 1000 ms callback: the mount target exists while the page is mounted
restartTimeout(E, t) == startScanningA(E, t)

stopScanningA(E) ==
  IF ~quaggaLoaded THEN E
  ELSE [QuaggaOffProcessed(QuaggaOffDetectedAll(QuaggaStop(E)))
          EXCEPT !.isScanning = FALSE]

InitAuto ==
  /\ variant = "auto"
  /\ hasInitialized = FALSE
  /\ quaggaLoaded = FALSE
  /\ isLoading = TRUE
  /\ scannerState = "idle"
  /\ isScanning = FALSE
  /\ scannedCode = ""
  /\ error = ""
  /\ cameras = <<>>
  /\ selectedCamera = ""
  /\ productInfo = "null"
  /\ isLoadingProduct = FALSE
  /\ scanCount = 0
  /\ productStock = JSUndefined
  /\ stockUpdateLoading = FALSE
  /\ stockMessage = ""
  /\ stockReqs = <<>>
  /\ renderId = 1
  /\ inits = <<>>
  /\ live = 0
  /\ running = FALSE
  /\ initialized = FALSE
  /\ detected = <<>>
  /\ processed = 0
  /\ timers = <<>>
  /\ fetches = <<>>
  /\ calls = <<>>
  /\ op = OpRec("mount", FALSE)
  /\ InitStore

\* the load effect: the dynamic import settles
LoadQuaggaA(outcome) ==
  /\ isLoading
  /\ quaggaLoaded' = (outcome = "ok")
  /\ isLoading' = FALSE
  /\ error' = IF outcome = "ok" THEN error ELSE "E_LIBRARY"
  /\ renderId' = 1
  /\ calls' = <<>>
  /\ op' = [OpRec("loadQuagga", FALSE) EXCEPT
              !.err = IF outcome = "ok" THEN "" ELSE outcome]
  /\ UNCHANGED << variant, hasInitialized, scannerState, isScanning,
                  scannedCode, cameras, selectedCamera, productInfo,
                  isLoadingProduct, scanCount, productStock,
                  stockUpdateLoading, stockMessage, stockReqs, inits, live,
                  running, initialized, detected, processed, timers, fetches >>
  /\ UNCHANGED serverVars

\* the start button is rendered while isScanning is false, enabled once loaded
ClickStartA ==
  /\ ~isLoading /\ ~isScanning /\ quaggaLoaded
  /\ Room
  /\ Commit(startScanningA(Env, CurA), OpRec("start", TRUE))

\* the stop button is rendered while isScanning is true
ClickStopA ==
  /\ ~isLoading /\ isScanning
  /\ Commit(stopScanningA(Env), OpRec("stop", TRUE))

InitDoneA(i, err) ==
  /\ i \in 1..Len(inits)
  /\ err = "" => live < MaxLive
  /\ LET E0 == [Env EXCEPT !.inits = RemoveAt(@, i)]
         E1 == IF err = "" THEN [E0 EXCEPT !.live = @ + 1] ELSE E0
     IN Commit(initCallbackA(E1, err),
               [OpRec("initCallback", FALSE) EXCEPT !.err = err])

\* a frame is decoded: every registered listener runs
DetectedFrameA(code) ==
  /\ running /\ detected # <<>>
  /\ Len(timers) + Len(detected) <= MaxTimers
  /\ Commit(EmitA(Env, detected, code),
            [OpRec("onDetected", FALSE) EXCEPT !.code = code])

TimerFireA(i) ==
  /\ i \in 1..Len(timers) /\ CanFire(i)
  /\ LET t == timers[i]
         E0 == [Env EXCEPT !.timers = RemoveAt(@, i)]
     IN IF t.kind = "pause"
        THEN Commit(pauseTimeout(E0, t), OpRec("pauseTimeout", FALSE))
        ELSE Room /\ Commit(restartTimeout(E0, t), OpRec("restartTimeout", FALSE))

NextAuto ==
  \/ \E outcome \in {"ok", "import"} : LoadQuaggaA(outcome)
  \/ ClickStartA
  \/ ClickStopA
  \/ \E i \in 1..MaxInits, err \in {"", "busy"} : InitDoneA(i, err)
  \/ \E code \in Codes : DetectedFrameA(code)
  \/ \E i \in 1..MaxTimers : TimerFireA(i)

SpecAuto == InitAuto /\ [][NextAuto]_vars

\* C32: on the auto-restart page the 500 ms callback of a detection stops
\* the decoder and sets the 1 s timer that starts scanning again.
C32_PauseThenRestart ==
  [][op'.name = "pauseTimeout" =>
       /\ "stop" \in Range(calls')
       /\ ~running'
       /\ \E i \in 1..Len(timers') :
            timers'[i].kind = "restart" /\ timers'[i].delay = RestartDelay]_vars

====
